---- MODULE Spec2Model ----
(***************************************************************************)
(* Restaurant POS (src/main.py): the SQLite store (tables, menu, orders,   *)
(* sales), the db helper functions, and the POSApp button handlers.        *)
(*                                                                         *)
(* Money is fixed point.  Prices and subtotals are in cents.  tax_var is   *)
(* in tenths of a percent (5.0 % is 50).  A grand total is in units of     *)
(* 1/TotalUnit of a cent, so that subtotal + subtotal*tax/100 is exact.    *)
(* The float arithmetic of the program is not modelled.                    *)
(*                                                                         *)
(* Spec runs every handler whole, for one application instance.            *)
(* SpecCrash runs the handlers of the main window one commit at a time and *)
(* lets the process stop and start again.                                  *)
(* SpecTwo runs two instances on one database, commit by commit.           *)
(***************************************************************************)
EXTENDS Integers, FiniteSets, Sequences, TLC

\* ---------------------------------------------------------------- bounds
MaxTables == 2      \* tables seeded in the model (the program seeds 8)
MaxOrderId == 2     \* cap on the AUTOINCREMENT id of the orders table
MaxSales == 2       \* cap on the number of rows of the sales table
MaxCrashes == 1     \* cap on the number of times the process stops

\* ------------------------------------------------------ program constants
TotalUnit == 1000               \* a total counts 1/1000 of a cent

None == 0                       \* Python None for selected_table
Main == "app1"                  \* the application instance that is running
Apps == {Main}

TableNos == 1..MaxTables
OrderIds == 1..MaxOrderId

\* sample_menu: id -> price in cents (ids as AUTOINCREMENT assigns them)
menu_items ==
    [i \in 1..9 |->
        CASE i = 1 -> 850 [] i = 2 -> 950 [] i = 3 -> 500
          [] i = 4 -> 650 [] i = 5 -> 750 [] i = 6 -> 150
          [] i = 7 -> 200 [] i = 8 -> 300 [] i = 9 -> 450]

\* rows of the menu listbox the model clicks (Coke)
MenuChoices == {6}
\* value of the Qty spinbox at the clicks of "Add to Order"
QtyChoices == {2}
\* values set in the Tax spinbox: 5 %, 12.5 %
TaxChoices == {50, 125}

VARIABLES
    tables,          \* store: table_no -> status
    orders,          \* store: set of rows of the orders table
    order_seq,       \* store: sqlite_sequence of orders (last id handed out)
    sales,           \* store: sequence of rows of the sales table
    selected_table,  \* app -> POSApp.selected_table
    order_tree,      \* app -> ids of the rows shown in the order treeview
    kitchen_open,    \* app -> whether the kitchen window has been opened
    kitchen_tree,    \* app -> ids of the rows shown in the kitchen treeview
    msg,             \* app -> title of the messagebox.showerror the last
                     \*   handler ended in, "none" when it showed none
    pc,              \* app -> position inside a handler (step-wise runs)
    bill,            \* app -> locals of print_bill while it runs
    crashes          \* how many times a process has stopped

vars == <<tables, orders, order_seq, sales, selected_table, order_tree,
          kitchen_open, kitchen_tree, msg, pc, bill, crashes>>
ui == <<selected_table, order_tree, kitchen_open, kitchen_tree>>
store == <<tables, orders, order_seq, sales>>

NoBill == [table_no |-> None, total |-> 0]

\* ------------------------------------------------------------ db helpers
\* (bug variant) the UPDATE without its WHERE clause
set_table_status_all(tb, table_no, status) ==
    [t \in DOMAIN tb |-> status]

\* set_table_status: UPDATE tables SET status=? WHERE table_no=?
set_table_status(tb, table_no, status) ==
    [t \in DOMAIN tb |-> IF t = table_no THEN status ELSE tb[t]]

\* (bug variant) a second add of the same item on the same table raises
\* the quantity of the existing row
insert_order_merged(ords, seq, table_no, item_id, qty, price) ==
    IF \E o \in ords : o.table_no = table_no /\ o.item_id = item_id
    THEN {IF o.table_no = table_no /\ o.item_id = item_id
          THEN [o EXCEPT !.qty = @ + qty] ELSE o : o \in ords}
    ELSE ords \cup {[id |-> seq + 1, table_no |-> table_no,
                     item_id |-> item_id, qty |-> qty, price |-> price,
                     status |-> "pending"]}

\* the INSERT of add_order_item: a new row, status 'pending', next id
insert_order(ords, seq, table_no, item_id, qty, price) ==
    ords \cup {[id |-> seq + 1, table_no |-> table_no, item_id |-> item_id,
                qty |-> qty, price |-> price, status |-> "pending"]}

\* (bug variant) the SELECT without its WHERE clause
get_orders_of_all_tables(ords, table_no) == ords

\* get_orders_for_table: SELECT ... FROM orders WHERE table_no=?
get_orders_for_table(ords, table_no) ==
    {o \in ords : o.table_no = table_no}

\* get_pending_orders: SELECT ... FROM orders WHERE status='pending'
get_pending_orders(ords) ==
    {o \in ords : o.status = "pending"}

\* (bug variant) INSERT OR REPLACE: an id that matches no row creates one
mark_order_prepared_upsert(ords, order_id) ==
    IF \E o \in ords : o.id = order_id
    THEN {IF o.id = order_id THEN [o EXCEPT !.status = "prepared"] ELSE o
            : o \in ords}
    ELSE ords \cup {[id |-> order_id, table_no |-> 1, item_id |-> 6,
                     qty |-> 1, price |-> 150, status |-> "prepared"]}

\* mark_order_prepared: UPDATE orders SET status='prepared' WHERE id=?
mark_order_prepared(ords, order_id) ==
    {IF o.id = order_id THEN [o EXCEPT !.status = "prepared"] ELSE o
       : o \in ords}

\* (bug variant) the DELETE keyed on id instead of table_no
delete_orders_by_id(ords, table_no) ==
    {o \in ords : o.id # table_no}

\* delete_orders_for_table: DELETE FROM orders WHERE table_no=?
delete_orders_for_table(ords, table_no) ==
    {o \in ords : o.table_no # table_no}

\* remove_selected_order_item: DELETE FROM orders WHERE id=?
delete_order(ords, oid) ==
    {o \in ords : o.id # oid}

\* (bug variant) INSERT OR REPLACE keyed on table_no: a table's earlier
\* sale is overwritten
insert_sale_replace(sl, table_no, total) ==
    IF \E i \in 1..Len(sl) : sl[i].table_no = table_no
    THEN [i \in 1..Len(sl) |->
            IF sl[i].table_no = table_no
            THEN [id |-> i, table_no |-> table_no, total |-> total]
            ELSE sl[i]]
    ELSE Append(sl, [id |-> Len(sl) + 1, table_no |-> table_no,
                     total |-> total])

\* the INSERT of complete_bill_and_save: one new row at the end of sales
insert_sale(sl, table_no, total) ==
    Append(sl, [id |-> Len(sl) + 1, table_no |-> table_no, total |-> total])

\* add_order_item: the INSERT, then set_table_status(table_no, "occupied")
add_order_item(st, table_no, item_id, qty, price) ==
    [st EXCEPT
        !.orders = insert_order(@, st.order_seq, table_no, item_id, qty, price),
        !.order_seq = @ + 1,
        !.tables = set_table_status(@, table_no, "occupied")]

\* (bug variant) the sale is saved and the table freed, the orders stay
complete_bill_keep_orders(st, table_no, total) ==
    [st EXCEPT
        !.sales = Append(@, [id |-> Len(@) + 1, table_no |-> table_no,
                             total |-> total]),
        !.tables = [t \in DOMAIN @ |-> IF t = table_no THEN "free" ELSE @[t]]]

\* complete_bill_and_save: the INSERT into sales, then
\* delete_orders_for_table(table_no), then set_table_status(table_no, "free")
complete_bill_and_save(st, table_no, total) ==
    [st EXCEPT
        !.sales = insert_sale(@, table_no, total),
        !.orders = delete_orders_for_table(@, table_no),
        !.tables = set_table_status(@, table_no, "free")]

\* -------------------------------------------------------------- billing
RECURSIVE SumLines(_)
\* subtotal += qty * price over the rows read by print_bill
SumLines(rows) ==
    IF rows = {} THEN 0
    ELSE LET o == CHOOSE x \in rows : TRUE
         IN  o.qty * o.price + SumLines(rows \ {o})

\* (bug variant) the total is returned rounded down to whole cents
generate_receipt_rounded(subtotal, tax_percent) ==
    ((subtotal * TotalUnit + subtotal * tax_percent) \div TotalUnit) * TotalUnit

\* generate_receipt_pdf: tax = subtotal*tax_percent/100, grand = subtotal+tax
generate_receipt_pdf(subtotal, tax_percent) ==
    subtotal * TotalUnit + subtotal * tax_percent

\* qty = int(self.qty_var.get() or 1)
qty_or_1(q) == IF q = 0 THEN 1 ELSE q

Ids(rows) == {o.id : o \in rows}

\* ------------------------------------------------------------------ Init
Init ==
    /\ tables = [t \in TableNos |-> "free"]
    /\ orders = {}
    /\ order_seq = 0
    /\ sales = <<>>
    /\ selected_table = [a \in Apps |-> None]
    /\ order_tree = [a \in Apps |-> {}]
    /\ kitchen_open = [a \in Apps |-> FALSE]
    /\ kitchen_tree = [a \in Apps |-> {}]
    /\ msg = [a \in Apps |-> "none"]
    /\ pc = [a \in Apps |-> "idle"]
    /\ bill = [a \in Apps |-> NoBill]
    /\ crashes = 0

\* ------------------------------------------------- handlers, run whole
\* refresh_order_view: the ids the order treeview shows afterwards
refresh_order_view(ords, sel) ==
    IF sel = None THEN {} ELSE Ids(get_orders_for_table(ords, sel))

\* load_pending: the ids the kitchen treeview shows afterwards
load_pending(ords) == Ids(get_pending_orders(ords))

Idle(a) == pc[a] = "idle"

\* the store as the handlers find it, and as a handler leaves it
DB == [tables |-> tables, orders |-> orders, order_seq |-> order_seq,
       sales |-> sales]
Commit(st) ==
    /\ tables' = st.tables
    /\ orders' = st.orders
    /\ order_seq' = st.order_seq
    /\ sales' = st.sales

\* a table button is clicked
open_table(a, table_no) ==
    /\ Idle(a)
    /\ selected_table' = [selected_table EXCEPT ![a] = table_no]
    /\ order_tree' = [order_tree EXCEPT ![a] = refresh_order_view(orders, table_no)]
    /\ msg' = [msg EXCEPT ![a] = "none"]
    /\ UNCHANGED <<store, kitchen_open, kitchen_tree, pc, bill, crashes>>

\* "Add to Order" with menu row sel (None: no row selected) and Qty q
add_selected_item_to_order(a, sel, q) ==
    /\ Idle(a)
    /\ IF selected_table[a] = None
       THEN /\ msg' = [msg EXCEPT ![a] = "No table selected"]
            /\ UNCHANGED <<store, ui, pc, bill, crashes>>
       ELSE IF sel = None
       THEN /\ msg' = [msg EXCEPT ![a] = "No item selected"]
            /\ UNCHANGED <<store, ui, pc, bill, crashes>>
       ELSE /\ order_seq < MaxOrderId
            /\ LET t == selected_table[a]
                   st == add_order_item(DB, t, sel, qty_or_1(q),
                                        menu_items[sel])
               IN  /\ Commit(st)
                   /\ order_tree' = [order_tree EXCEPT
                                       ![a] = refresh_order_view(st.orders, t)]
            /\ msg' = [msg EXCEPT ![a] = "none"]
            /\ UNCHANGED <<selected_table, kitchen_open, kitchen_tree,
                           pc, bill, crashes>>

\* "Remove Selected" with order-tree row oid (None: no row selected)
remove_selected_order_item(a, oid) ==
    /\ Idle(a)
    /\ IF oid = None
       THEN /\ msg' = [msg EXCEPT ![a] = "No selection"]
            /\ UNCHANGED <<store, ui, pc, bill, crashes>>
       ELSE /\ oid \in order_tree[a]
            /\ LET ords == delete_order(orders, oid)
               IN  /\ orders' = ords
                   /\ order_tree' = [order_tree EXCEPT
                         ![a] = refresh_order_view(ords, selected_table[a])]
            /\ msg' = [msg EXCEPT ![a] = "none"]
            /\ UNCHANGED <<tables, order_seq, sales, selected_table,
                           kitchen_open, kitchen_tree, pc, bill, crashes>>

\* "Send to Kitchen"
send_to_kitchen(a) ==
    /\ Idle(a)
    /\ msg' = [msg EXCEPT ![a] = IF selected_table[a] = None
                                 THEN "No table" ELSE "none"]
    /\ UNCHANGED <<store, ui, pc, bill, crashes>>

\* "Print Bill" with the Tax spinbox at tax
print_bill(a, tax) ==
    /\ Idle(a)
    /\ IF selected_table[a] = None
       THEN /\ msg' = [msg EXCEPT ![a] = "No table selected"]
            /\ UNCHANGED <<store, ui, pc, bill, crashes>>
       ELSE IF get_orders_for_table(orders, selected_table[a]) = {}
       THEN /\ msg' = [msg EXCEPT ![a] = "No orders"]
            /\ UNCHANGED <<store, ui, pc, bill, crashes>>
       ELSE /\ Len(sales) < MaxSales
            /\ LET t == selected_table[a]
                   rows == get_orders_for_table(orders, t)
                   grand_total == generate_receipt_pdf(SumLines(rows), tax)
                   st == complete_bill_and_save(DB, t, grand_total)
               IN  /\ Commit(st)
                   /\ selected_table' = [selected_table EXCEPT ![a] = None]
                   /\ order_tree' = [order_tree EXCEPT
                           ![a] = refresh_order_view(st.orders, None)]
            /\ msg' = [msg EXCEPT ![a] = "none"]
            /\ UNCHANGED <<kitchen_open, kitchen_tree, pc, bill, crashes>>

\* "Free Table"; yes is the answer to the askyesno dialog
free_table(a, yes) ==
    /\ Idle(a)
    /\ IF selected_table[a] = None
       THEN /\ msg' = [msg EXCEPT ![a] = "No table selected"]
            /\ UNCHANGED <<store, ui, pc, bill, crashes>>
       ELSE IF ~yes
       THEN /\ msg' = [msg EXCEPT ![a] = "none"]
            /\ UNCHANGED <<store, ui, pc, bill, crashes>>
       ELSE /\ LET t == selected_table[a]
                   ords == delete_orders_for_table(orders, t)
               IN  /\ orders' = ords
                   /\ tables' = set_table_status(tables, t, "free")
                   /\ selected_table' = [selected_table EXCEPT ![a] = None]
                   /\ order_tree' = [order_tree EXCEPT
                                       ![a] = refresh_order_view(ords, None)]
            /\ msg' = [msg EXCEPT ![a] = "none"]
            /\ UNCHANGED <<order_seq, sales, kitchen_open, kitchen_tree,
                           pc, bill, crashes>>

\* "Kitchen Screen", and "Refresh" in the kitchen window
open_kitchen_screen(a) ==
    /\ Idle(a)
    /\ kitchen_open' = [kitchen_open EXCEPT ![a] = TRUE]
    /\ kitchen_tree' = [kitchen_tree EXCEPT ![a] = load_pending(orders)]
    /\ msg' = [msg EXCEPT ![a] = "none"]
    /\ UNCHANGED <<store, selected_table, order_tree, pc, bill, crashes>>

\* "Mark Prepared" with kitchen-tree row oid (None: no row selected)
mark_prepared(a, oid) ==
    /\ Idle(a)
    /\ kitchen_open[a]
    /\ IF oid = None
       THEN /\ msg' = [msg EXCEPT ![a] = "No selection"]
            /\ UNCHANGED <<store, ui, pc, bill, crashes>>
       ELSE /\ oid \in kitchen_tree[a]
            /\ LET ords == mark_order_prepared(orders, oid)
               IN  /\ orders' = ords
                   /\ kitchen_tree' = [kitchen_tree EXCEPT
                                         ![a] = load_pending(ords)]
            /\ msg' = [msg EXCEPT ![a] = "none"]
            /\ UNCHANGED <<tables, order_seq, sales, selected_table,
                           order_tree, kitchen_open, pc, bill, crashes>>

AddItem == \E sel \in MenuChoices \cup {None}, q \in QtyChoices :
               add_selected_item_to_order(Main, sel, q)
RemoveItem == \E oid \in OrderIds \cup {None} :
                  remove_selected_order_item(Main, oid)
MarkPrepared == \E oid \in OrderIds \cup {None} : mark_prepared(Main, oid)
CompleteBill == \E tax \in TaxChoices : print_bill(Main, tax)
FreeTable == \E yes \in BOOLEAN : free_table(Main, yes)
OpenTable == \E t \in TableNos : open_table(Main, t)
SendToKitchen == send_to_kitchen(Main)
OpenKitchen == open_kitchen_screen(Main)

Next ==
    \/ OpenTable
    \/ AddItem
    \/ RemoveItem
    \/ SendToKitchen
    \/ CompleteBill
    \/ FreeTable
    \/ OpenKitchen
    \/ MarkPrepared

Spec == Init /\ [][Next]_vars

\* ------------------------------------- handlers, one commit at a time
\* Every db helper opens its own connection and commits, so a handler that
\* calls several of them changes the store in several steps.  pc is the
\* place the handler has reached; the process can stop at any of them.

\* add_selected_item_to_order up to the commit of the INSERT in
\* add_order_item
add_begin(a, sel, q) ==
    /\ Idle(a)
    /\ IF selected_table[a] = None
       THEN /\ msg' = [msg EXCEPT ![a] = "No table selected"]
            /\ UNCHANGED <<store, ui, pc, bill, crashes>>
       ELSE IF sel = None
       THEN /\ msg' = [msg EXCEPT ![a] = "No item selected"]
            /\ UNCHANGED <<store, ui, pc, bill, crashes>>
       ELSE /\ order_seq < MaxOrderId
            /\ orders' = insert_order(orders, order_seq, selected_table[a],
                                      sel, qty_or_1(q), menu_items[sel])
            /\ order_seq' = order_seq + 1
            /\ pc' = [pc EXCEPT ![a] = "add_inserted"]
            /\ UNCHANGED <<tables, sales, ui, msg, bill, crashes>>

\* the rest of it: set_table_status(table_no, "occupied"), then
\* refresh_order_view and render_tables
add_end(a) ==
    /\ pc[a] = "add_inserted"
    /\ tables' = set_table_status(tables, selected_table[a], "occupied")
    /\ order_tree' = [order_tree EXCEPT
                        ![a] = refresh_order_view(orders, selected_table[a])]
    /\ msg' = [msg EXCEPT ![a] = "none"]
    /\ pc' = [pc EXCEPT ![a] = "idle"]
    /\ UNCHANGED <<orders, order_seq, sales, selected_table, kitchen_open,
                   kitchen_tree, bill, crashes>>

\* print_bill up to the call of complete_bill_and_save: the orders are read,
\* the subtotal summed and the receipt written
bill_begin(a, tax) ==
    /\ Idle(a)
    /\ IF selected_table[a] = None
       THEN /\ msg' = [msg EXCEPT ![a] = "No table selected"]
            /\ UNCHANGED <<store, ui, pc, bill, crashes>>
       ELSE IF get_orders_for_table(orders, selected_table[a]) = {}
       THEN /\ msg' = [msg EXCEPT ![a] = "No orders"]
            /\ UNCHANGED <<store, ui, pc, bill, crashes>>
       ELSE /\ Len(sales) < MaxSales
            /\ LET rows == get_orders_for_table(orders, selected_table[a])
               IN  bill' = [bill EXCEPT ![a] =
                              [table_no |-> selected_table[a],
                               total |-> generate_receipt_pdf(SumLines(rows),
                                                              tax)]]
            /\ pc' = [pc EXCEPT ![a] = "bill_receipt"]
            /\ UNCHANGED <<store, ui, msg, crashes>>

\* (bug variant) the sale is saved and the orders are cleared and the table
\* freed in the same commit
bill_save_sale_and_clear(a) ==
    /\ pc[a] = "bill_receipt"
    /\ Commit(complete_bill_and_save(DB, bill[a].table_no, bill[a].total))
    /\ pc' = [pc EXCEPT ![a] = "bill_sale_saved"]
    /\ UNCHANGED <<ui, msg, bill, crashes>>

\* (bug variant) the INSERT into sales is not committed: the row is lost
\* when the connection closes
bill_save_sale_uncommitted(a) ==
    /\ pc[a] = "bill_receipt"
    /\ pc' = [pc EXCEPT ![a] = "bill_sale_saved"]
    /\ UNCHANGED <<store, ui, msg, bill, crashes>>

\* complete_bill_and_save: the INSERT into sales and its commit
bill_save_sale(a) ==
    /\ pc[a] = "bill_receipt"
    /\ sales' = insert_sale(sales, bill[a].table_no, bill[a].total)
    /\ pc' = [pc EXCEPT ![a] = "bill_sale_saved"]
    /\ UNCHANGED <<tables, orders, order_seq, ui, msg, bill, crashes>>

\* complete_bill_and_save: delete_orders_for_table(table_no)
bill_delete_orders(a) ==
    /\ pc[a] = "bill_sale_saved"
    /\ orders' = delete_orders_for_table(orders, bill[a].table_no)
    /\ pc' = [pc EXCEPT ![a] = "bill_orders_deleted"]
    /\ UNCHANGED <<tables, order_seq, sales, ui, msg, bill, crashes>>

\* complete_bill_and_save: set_table_status(table_no, "free"); then the rest
\* of print_bill
bill_end(a) ==
    /\ pc[a] = "bill_orders_deleted"
    /\ tables' = set_table_status(tables, bill[a].table_no, "free")
    /\ selected_table' = [selected_table EXCEPT ![a] = None]
    /\ order_tree' = [order_tree EXCEPT
                        ![a] = refresh_order_view(orders, None)]
    /\ msg' = [msg EXCEPT ![a] = "none"]
    /\ pc' = [pc EXCEPT ![a] = "idle"]
    /\ bill' = [bill EXCEPT ![a] = NoBill]
    /\ UNCHANGED <<orders, order_seq, sales, kitchen_open, kitchen_tree,
                   crashes>>

\* free_table up to the commit of delete_orders_for_table
free_begin(a, yes) ==
    /\ Idle(a)
    /\ IF selected_table[a] = None
       THEN /\ msg' = [msg EXCEPT ![a] = "No table selected"]
            /\ UNCHANGED <<store, ui, pc, bill, crashes>>
       ELSE IF ~yes
       THEN /\ msg' = [msg EXCEPT ![a] = "none"]
            /\ UNCHANGED <<store, ui, pc, bill, crashes>>
       ELSE /\ orders' = delete_orders_for_table(orders, selected_table[a])
            /\ pc' = [pc EXCEPT ![a] = "free_deleted"]
            /\ UNCHANGED <<tables, order_seq, sales, ui, msg, bill, crashes>>

\* (bug variant) the status is set 'free' only when the table has no line
\* left
free_end_if_empty(a) ==
    /\ pc[a] = "free_deleted"
    /\ tables' = IF get_orders_for_table(orders, selected_table[a]) = {}
                 THEN set_table_status(tables, selected_table[a], "free")
                 ELSE tables
    /\ selected_table' = [selected_table EXCEPT ![a] = None]
    /\ order_tree' = [order_tree EXCEPT
                        ![a] = refresh_order_view(orders, None)]
    /\ msg' = [msg EXCEPT ![a] = "none"]
    /\ pc' = [pc EXCEPT ![a] = "idle"]
    /\ UNCHANGED <<orders, order_seq, sales, kitchen_open, kitchen_tree, bill, crashes>>

\* the rest of it: set_table_status(table_no, "free"), the selection is
\* dropped and the views are refreshed
free_end(a) ==
    /\ pc[a] = "free_deleted"
    /\ tables' = set_table_status(tables, selected_table[a], "free")
    /\ selected_table' = [selected_table EXCEPT ![a] = None]
    /\ order_tree' = [order_tree EXCEPT
                        ![a] = refresh_order_view(orders, None)]
    /\ msg' = [msg EXCEPT ![a] = "none"]
    /\ pc' = [pc EXCEPT ![a] = "idle"]
    /\ UNCHANGED <<orders, order_seq, sales, kitchen_open, kitchen_tree, bill, crashes>>

\* the process stops (it is killed, or the machine goes down): what was
\* committed stays in the store, the windows and the locals are gone
Crash(a) ==
    /\ pc[a] # "stopped"
    /\ crashes < MaxCrashes
    /\ crashes' = crashes + 1
    /\ pc' = [pc EXCEPT ![a] = "stopped"]
    /\ selected_table' = [selected_table EXCEPT ![a] = None]
    /\ order_tree' = [order_tree EXCEPT ![a] = {}]
    /\ kitchen_open' = [kitchen_open EXCEPT ![a] = FALSE]
    /\ kitchen_tree' = [kitchen_tree EXCEPT ![a] = {}]
    /\ msg' = [msg EXCEPT ![a] = "none"]
    /\ bill' = [bill EXCEPT ![a] = NoBill]
    /\ UNCHANGED store

\* the application is started again: init_db finds the tables and the menu
\* in place, POSApp.__init__ builds the empty views
Restart(a) ==
    /\ pc[a] = "stopped"
    /\ pc' = [pc EXCEPT ![a] = "idle"]
    /\ UNCHANGED <<store, ui, msg, bill, crashes>>

AddBegin == \E sel \in MenuChoices \cup {None}, q \in QtyChoices :
                add_begin(Main, sel, q)
AddEnd == add_end(Main)
BillBegin == \E tax \in TaxChoices : bill_begin(Main, tax)
BillSaveSale == bill_save_sale(Main)
BillDeleteOrders == bill_delete_orders(Main)
BillEnd == bill_end(Main)
FreeBegin == \E yes \in BOOLEAN : free_begin(Main, yes)
FreeEnd == free_end(Main)
CrashMain == Crash(Main)
RestartMain == Restart(Main)

NextCrash ==
    \/ OpenTable
    \/ AddBegin
    \/ AddEnd
    \/ RemoveItem
    \/ SendToKitchen
    \/ BillBegin
    \/ BillSaveSale
    \/ BillDeleteOrders
    \/ BillEnd
    \/ FreeBegin
    \/ FreeEnd
    \/ CrashMain
    \/ RestartMain

\* The handlers of the main window commit by commit, the process stopping
\* and restarting.  The kitchen window is left closed: it only turns lines
\* 'prepared', which no step of these handlers reads.
SpecCrash == Init /\ [][NextCrash]_vars

\* ------------------------------------------- two instances, one database
\* A second POSApp process started on the same database/pos.db.  Each has
\* its own windows and locals; the store is shared, and every db helper is a
\* connection and a commit of its own, so the commits of the two instances'
\* handlers can alternate.
Other == "app2"
TwoApps == {Main, Other}

InitTwo ==
    /\ tables = [t \in TableNos |-> "free"]
    /\ orders = {}
    /\ order_seq = 0
    /\ sales = <<>>
    /\ selected_table = [a \in TwoApps |-> None]
    /\ order_tree = [a \in TwoApps |-> {}]
    /\ kitchen_open = [a \in TwoApps |-> FALSE]
    /\ kitchen_tree = [a \in TwoApps |-> {}]
    /\ msg = [a \in TwoApps |-> "none"]
    /\ pc = [a \in TwoApps |-> "idle"]
    /\ bill = [a \in TwoApps |-> NoBill]
    /\ crashes = 0

OpenTableOf(a) == \E t \in TableNos : open_table(a, t)
AddBeginOf(a) == \E sel \in MenuChoices \cup {None}, q \in QtyChoices :
                     add_begin(a, sel, q)
BillBeginOf(a) == \E tax \in TaxChoices : bill_begin(a, tax)
FreeBeginOf(a) == \E yes \in BOOLEAN : free_begin(a, yes)

\* One instance takes the orders, the other bills and frees the tables.
NextTwo ==
    \/ \E a \in TwoApps : OpenTableOf(a)
    \/ AddBeginOf(Main)
    \/ add_end(Main)
    \/ BillBeginOf(Other)
    \/ bill_save_sale(Other)
    \/ bill_delete_orders(Other)
    \/ bill_end(Other)
    \/ FreeBeginOf(Other)
    \/ free_end(Other)

\* Two instances on one database, their handlers running commit by commit.
\* Neither stops, and the kitchen windows stay closed.
SpecTwo == InitTwo /\ [][NextTwo]_vars

\* ================================================================ claims
\* the order lines of table t, now and after the step
Lines(t) == {o \in orders : o.table_no = t}
LinesAfter(t) == {o \in orders' : o.table_no = t}
Sel == selected_table[Main]
\* the state allows a billing of the selected table to go through
Billable == Sel # None /\ Lines(Sel) # {}
\* this step is "Print Bill" going through
BillStep == Billable /\ \E tax \in TaxChoices : print_bill(Main, tax)
\* this step is "Free Table" answered yes
FreeStep == Sel # None /\ free_table(Main, TRUE)
\* this step is "Add to Order" going through
AddStep == Sel # None /\ \E sel \in MenuChoices, q \in QtyChoices :
                             add_selected_item_to_order(Main, sel, q)

\* C1: between operations, every table whose status is 'occupied' has at
\* least one order line.
C1_OccupiedHasLines ==
    \A t \in TableNos : tables[t] = "occupied" => Lines(t) # {}

\* C2: between operations, every table whose status is 'free' has zero
\* order lines.
C2_FreeHasNoLines ==
    \A t \in TableNos : tables[t] = "free" => Lines(t) = {}

\* a table that was billed or freed is free and empty again, and another
\* table is occupied with a line
C2_Witness ==
    \E t, u \in TableNos :
        /\ order_seq = MaxOrderId
        /\ tables[t] = "free" /\ Lines(t) = {}
        /\ tables[u] = "occupied" /\ Lines(u) # {}
        /\ Cardinality(orders) < order_seq

\* C3: the sales collection changes only by append.  A billing that goes
\* through adds exactly one Sale, for the billed table, after the existing
\* ones; every other step leaves sales as it is.
C3_SalesAppendOnly ==
    [][/\ BillStep =>
            /\ Len(sales') = Len(sales) + 1
            /\ sales'[Len(sales')].table_no = Sel
       /\ Len(sales') >= Len(sales)
       /\ \A i \in 1..Len(sales) : sales'[i] = sales[i]
       /\ \A i \in 1..Len(sales') : sales'[i].id = i
       /\ sales' # sales => BillStep]_vars

\* two sales are on record, the first for one table, the second for another
C3_Witness ==
    /\ Len(sales) = 2
    /\ sales[1].table_no # sales[2].table_no
    /\ sales[1].id = 1 /\ sales[2].id = 2

\* C4: when CompleteBill for a table has run, that table is free and has no
\* order line, whatever it had before; the lines and statuses of the other
\* tables are as before.
C4_CompleteBillFrees ==
    [][BillStep =>
          /\ tables'[Sel] = "free"
          /\ LinesAfter(Sel) = {}
          /\ \A u \in TableNos \ {Sel} :
                /\ tables'[u] = tables[u]
                /\ LinesAfter(u) = Lines(u)]_vars

\* a table was billed while another table holds a line: the billed one is
\* free and empty, the other still occupied with its line
C4_Witness ==
    \E t, u \in TableNos :
        /\ Len(sales) >= 1 /\ sales[Len(sales)].table_no = t
        /\ tables[t] = "free" /\ Lines(t) = {}
        /\ u # t /\ tables[u] = "occupied" /\ Lines(u) # {}
        /\ Sel = None

\* C5: billing a selected table that has no order line ends in the "No
\* orders" error and changes nothing: no sale, no line, no status, and the
\* table stays selected.
C5_EmptyBillRejected ==
    [][\A tax \in TaxChoices :
          (Sel # None /\ Lines(Sel) = {} /\ print_bill(Main, tax)) =>
              /\ msg'[Main] = "No orders"
              /\ sales' = sales
              /\ orders' = orders
              /\ tables' = tables
              /\ selected_table' = selected_table]_vars

\* the rejection happened on a table that is 'occupied' with zero lines,
\* while another table holds a line
C5_Witness ==
    /\ msg[Main] = "No orders"
    /\ Sel # None
    /\ tables[Sel] = "occupied"
    /\ Lines(Sel) = {}
    /\ orders # {}

RECURSIVE SubtotalUpTo(_, _)
\* the sum of qty*price over the rows with an id of at most n
SubtotalUpTo(rows, n) ==
    IF n = 0 THEN 0
    ELSE SubtotalUpTo(rows, n - 1) +
         (IF \E o \in rows : o.id = n
          THEN LET o == CHOOSE x \in rows : x.id = n IN o.qty * o.price
          ELSE 0)

\* C6: the total of the Sale a billing records is subtotal +
\* subtotal*taxPercent/100, the subtotal being the sum of qty*price over all
\* the lines the table has then, pending or prepared (tax counts tenths of a
\* percent, a total 1/TotalUnit of a cent); one line of 2 at 1.50 with 5 %
\* tax gives 3.15.
C6_SaleTotal ==
    [][\A tax \in TaxChoices :
          (Billable /\ print_bill(Main, tax)) =>
              LET subtotal == SubtotalUpTo(Lines(Sel), order_seq)
                  total == sales'[Len(sales')].total
              IN  /\ 10 * 100 * total
                       = TotalUnit * (10 * 100 * subtotal + subtotal * tax)
                  /\ (/\ Cardinality(Lines(Sel)) = 1
                      /\ \A o \in Lines(Sel) : o.qty = 2 /\ o.price = 150
                      /\ tax = 50) => total = 315 * TotalUnit]_vars

\* the only line ever added was billed for 3.15
C6_Witness ==
    /\ order_seq = 1
    /\ Len(sales) = 1
    /\ sales[1].total = 315 * TotalUnit
    /\ orders = {}

\* "Add to Order" with menu row sel left exactly one more line, of quantity
\* qty, on the selected table
AddedOneLine(sel, qty) ==
    \E o \in orders' :
        /\ o.id \notin Ids(orders)
        /\ o.id > order_seq
        /\ orders' = orders \cup {o}
        /\ o.table_no = Sel /\ o.item_id = sel /\ o.qty = qty
        /\ o.price = menu_items[sel] /\ o.status = "pending"
        /\ tables'[Sel] = "occupied"
        /\ Cardinality(LinesAfter(Sel))
             = Cardinality(Lines(Sel)) + 1

\* C7: every AddItem(table, item, qty) creates exactly one new line with a
\* fresh id, status 'pending' and the given qty, sets the table 'occupied'
\* and changes no existing line, so a second add of the same item leaves two
\* lines.  The qty AddItem is given is the one the handler passes to
\* add_order_item: the value of the Qty box, and 1 when the box holds 0.
C7_AddItemNewLine ==
    [][\A sel \in MenuChoices, q \in QtyChoices :
          (Sel # None /\ add_selected_item_to_order(Main, sel, q)) =>
              AddedOneLine(sel, IF q = 0 THEN 1 ELSE q)]_vars

\* two adds of the same item on the same table left two distinct lines
C7_Witness ==
    \E o1, o2 \in orders :
        /\ o1.id # o2.id
        /\ o1.table_no = o2.table_no /\ o1.item_id = o2.item_id
        /\ o1.qty = o2.qty
        /\ Cardinality(Lines(o1.table_no)) = 2
        /\ tables[o1.table_no] = "occupied"

\* C8: a line's status only moves pending -> prepared, and a prepared line
\* stays prepared until it is deleted; "Mark Prepared" on a row of a stale
\* kitchen view whose id matches no line can always be carried out, ends
\* without an error box and changes no line, table or sale.
C8_PreparedStays ==
    /\ [](\A oid \in kitchen_tree[Main] : ENABLED mark_prepared(Main, oid))
    /\ [][/\ \A o \in orders, o2 \in orders' :
                o2.id = o.id =>
                   \/ o2 = o
                   \/ /\ o.status = "pending"
                      /\ o2 = [o EXCEPT !.status = "prepared"]
          /\ \A o2 \in orders' :
                o2.id \notin Ids(orders) => o2.status = "pending"
          /\ \A oid \in kitchen_tree[Main] \ Ids(orders) :
                mark_prepared(Main, oid) =>
                   /\ orders' = orders
                   /\ tables' = tables
                   /\ sales' = sales
                   /\ msg'[Main] = "none"]_vars

\* the kitchen view is stale (it shows a line that was billed or freed) and
\* a prepared line exists
C8_Witness ==
    /\ kitchen_tree[Main] \ Ids(orders) # {}
    /\ \E o \in orders : o.status = "prepared"
    /\ \A t \in TableNos : Lines(t) = {} => tables[t] = "free"

\* C9: a table's status is 'free' or 'occupied'; it turns occupied only by
\* AddItem on that table, turns free only by CompleteBill or FreeTable on
\* that table, and RemoveItem, MarkPrepared, send-to-kitchen and the
\* refreshes change no status.
C9_TableStateMachine ==
    /\ [](\A t \in TableNos : tables[t] \in {"free", "occupied"})
    /\ [][/\ \A t \in TableNos :
                /\ (tables[t] = "free" /\ tables'[t] = "occupied")
                      => (AddStep /\ Sel = t)
                /\ (tables[t] = "occupied" /\ tables'[t] = "free")
                      => ((BillStep \/ FreeStep) /\ Sel = t)
          /\ tables' # tables =>
                ~(RemoveItem \/ MarkPrepared \/ SendToKitchen \/ OpenKitchen
                    \/ OpenTable)]_vars

\* lines were added, which occupied their table, and every table is free
\* again with no sale on record: FreeTable brought it back
C9_Witness ==
    /\ order_seq = MaxOrderId
    /\ sales = <<>>
    /\ orders = {}
    /\ \A t \in TableNos : tables[t] = "free"
    /\ Sel = None

\* C10: CompleteBill is three commits, the Sale first: the step that writes
\* it leaves the table's order lines and its status as they were, and the
\* process can stop right there, which leaves the store with the Sale
\* recorded, the lines in place and the table as it was (a later billing of
\* the table then records the same lines again); the lines are deleted by
\* the second commit and the table is freed by the third.
C10_SaleSavedBeforeClear ==
    /\ []((pc[Main] = "bill_sale_saved" /\ crashes < MaxCrashes)
            => ENABLED Crash(Main))
    /\ [][/\ (pc[Main] = "bill_receipt" /\ pc'[Main] # "stopped") =>
                LET t == bill[Main].table_no
                IN  /\ pc'[Main] = "bill_sale_saved"
                    /\ Len(sales') = Len(sales) + 1
                    /\ sales'[Len(sales')].table_no = t
                    /\ sales'[Len(sales')].total = bill[Main].total
                    /\ Lines(t) # {}
                    /\ LinesAfter(t) = Lines(t)
                    /\ tables'[t] = tables[t]
          /\ (pc[Main] = "bill_sale_saved" /\ pc'[Main] = "stopped") =>
                /\ sales' = sales
                /\ orders' = orders
                /\ tables' = tables
          /\ (pc[Main] = "bill_sale_saved" /\ pc'[Main] # "stopped") =>
                /\ pc'[Main] = "bill_orders_deleted"
                /\ sales' = sales
                /\ tables' = tables
                /\ LinesAfter(bill[Main].table_no) = {}
          /\ (pc[Main] = "bill_orders_deleted" /\ pc'[Main] # "stopped") =>
                /\ pc'[Main] = "idle"
                /\ sales' = sales
                /\ orders' = orders
                /\ tables'[bill[Main].table_no] = "free"]_vars

\* the process stopped with a Sale on record for the only line ever added,
\* which is still there, its table still 'occupied'
C10_Witness ==
    /\ pc[Main] = "stopped"
    /\ order_seq = 1
    /\ Cardinality(orders) = 1
    /\ Len(sales) = 1
    /\ \A o \in orders : /\ o.table_no = sales[1].table_no
                          /\ tables[o.table_no] = "occupied"
                          /\ sales[1].total \in
                                {o.qty * o.price * (TotalUnit + tax)
                                   : tax \in TaxChoices}

\* after the restart that line was billed again: two Sales of the same
\* total for the one line ever added
C10_SecondSale ==
    /\ order_seq = 1
    /\ Len(sales) = 2
    /\ sales[1].table_no = sales[2].table_no
    /\ sales[1].total = sales[2].total
    /\ orders = {}
    /\ pc[Main] = "idle"

\* print_bill is inside complete_bill_and_save: past the receipt, not yet
\* back in the event loop
InBill == pc[Main] \in {"bill_receipt", "bill_sale_saved",
                        "bill_orders_deleted"}
\* the last row of sales is the Sale of the billing that is running
BillSaleWritten ==
    /\ Len(sales) >= 1
    /\ sales[Len(sales)] = [id |-> Len(sales),
                            table_no |-> bill[Main].table_no,
                            total |-> bill[Main].total]

\* C11 as stated: a crash partway through CompleteBill can leave the table's
\* lines cleared while no Sale of that billing is written.  A billing starts
\* with lines in place and no Sale, so such a state lies between its commits
\* exactly when the commit that writes the Sale finds the lines already
\* cleared.
C11_ClearedBeforeSale ==
    [][(InBill /\ sales' # sales) => Lines(bill[Main].table_no) = {}]_vars

\* C11 (amended): a crash partway through CompleteBill never leaves the
\* lines cleared with no Sale of that billing written.  The Sale is the first
\* commit: before it the lines are in place, it is on record from then on,
\* the lines are cleared only by the commit after it, and the process
\* stopping changes nothing in the store.  The partial states are the Sale
\* on record with the lines in place, and the Sale on record with the lines
\* cleared and the table still as it was.
C11_SaleBeforeClear ==
    /\ [](pc[Main] = "bill_receipt" => Lines(bill[Main].table_no) # {})
    /\ [](pc[Main] \in {"bill_sale_saved", "bill_orders_deleted"}
             => BillSaleWritten)
    /\ [](pc[Main] = "bill_orders_deleted"
             => Lines(bill[Main].table_no) = {})
    /\ [][/\ (InBill /\ Lines(bill[Main].table_no) # {}
                 /\ LinesAfter(bill[Main].table_no) = {}) =>
                /\ pc[Main] = "bill_sale_saved"
                /\ BillSaleWritten
                /\ sales' = sales
                /\ tables' = tables
          /\ (InBill /\ pc'[Main] = "stopped") =>
                /\ sales' = sales
                /\ orders' = orders
                /\ tables' = tables
                /\ LinesAfter(bill[Main].table_no) = {} =>
                      (BillSaleWritten /\ pc[Main] = "bill_orders_deleted")]_vars

\* the process stopped after the second commit of a billing: the only line
\* ever added is cleared, its Sale is on record, its table still 'occupied'
C11_Witness ==
    /\ pc[Main] = "stopped"
    /\ order_seq = 1
    /\ orders = {}
    /\ Len(sales) = 1
    /\ tables[sales[1].table_no] = "occupied"
    /\ sales[1].total \in {2 * 150 * (TotalUnit + tax) : tax \in TaxChoices}

\* the table the other instance is billing or freeing
OtherTable ==
    IF pc[Other] = "free_deleted" THEN selected_table[Other]
    ELSE bill[Other].table_no
\* both instances are back in their event loops
BothIdle == pc[Main] = "idle" /\ pc[Other] = "idle"

\* C12: with two instances on one database every store step is a commit of
\* its own and nothing holds one instance back while the other is between
\* two commits of a handler: AddItem's commits (the INSERT, then 'occupied')
\* can fall between those of the other instance's FreeTable or CompleteBill
\* (the DELETE, then 'free') on the same table.  The other instance's last
\* commit sets the table 'free' whatever lines it has by then, the Sale
\* carries the total summed when the lines were read, and the DELETE clears
\* every line the table has by then; so the table can end 'free' with a
\* line, or the Sale can omit a line the billing deleted.
C12_CommitsInterleave ==
    /\ [](/\ pc[Main] = "add_inserted" => ENABLED add_end(Main)
          /\ pc[Other] = "bill_receipt" => ENABLED bill_save_sale(Other)
          /\ pc[Other] = "bill_sale_saved"
                => ENABLED bill_delete_orders(Other)
          /\ pc[Other] = "bill_orders_deleted" => ENABLED bill_end(Other)
          /\ pc[Other] = "free_deleted" => ENABLED free_end(Other)
          /\ (pc[Main] = "idle" /\ selected_table[Main] # None
                /\ order_seq < MaxOrderId)
                => \A sel \in MenuChoices, q \in QtyChoices :
                      ENABLED add_begin(Main, sel, q))
    /\ [][/\ (pc[Other] \in {"free_deleted", "bill_orders_deleted"}
                /\ pc'[Other] # pc[Other]) =>
                /\ pc'[Other] = "idle"
                /\ tables' = [tables EXCEPT ![OtherTable] = "free"]
                /\ orders' = orders
                /\ sales' = sales
          /\ (pc[Other] = "bill_receipt" /\ pc'[Other] # pc[Other]) =>
                /\ Len(sales') = Len(sales) + 1
                /\ sales'[Len(sales')].table_no = bill[Other].table_no
                /\ sales'[Len(sales')].total = bill[Other].total
                /\ orders' = orders
                /\ tables' = tables
          /\ (pc[Other] = "bill_sale_saved" /\ pc'[Other] # pc[Other]) =>
                /\ LinesAfter(OtherTable) = {}
                /\ \A u \in TableNos \ {OtherTable} :
                      LinesAfter(u) = Lines(u)
                /\ sales' = sales
                /\ tables' = tables
          /\ (pc[Main] = "add_inserted" /\ pc'[Main] # pc[Main]) =>
                /\ pc'[Main] = "idle"
                /\ tables' = [tables EXCEPT
                                ![selected_table[Main]] = "occupied"]
                /\ orders' = orders
                /\ sales' = sales]_vars

\* both operations have finished and the Sale omits a line the billing
\* deleted: the order view of the adding instance, refreshed when its AddItem
\* finished, shows the table's two lines; both are gone and the only Sale,
\* for that table, is the total of one line
C12_Witness ==
    /\ BothIdle
    /\ order_seq = 2
    /\ orders = {}
    /\ Len(sales) = 1
    /\ selected_table[Main] = sales[1].table_no
    /\ order_tree[Main] = {1, 2}
    /\ sales[1].total \in {2 * 150 * (TotalUnit + tax) : tax \in TaxChoices}

\* both operations have finished and a table is 'free' with a line on it
C12_FreeWithLine ==
    /\ BothIdle
    /\ \E t \in TableNos : tables[t] = "free" /\ Lines(t) # {}

====
